---- MODULE Spec2Model ----
(***************************************************************************)
(* Model of the selection / filter / sort / output engine of the markdown  *)
(* file collector (src/md_collector.py, src/controls/collapsible.py).      *)
(*                                                                         *)
(* Strings are sequences of character codes (97 = "a", 66 = "B",           *)
(* 32 = " ", 46 = "."), so that lower(), strip(), substring tests and the  *)
(* code-point order of sorted() are computed, not assumed.                 *)
(* Tree nodes (Collapsible folders, file rows) are identified by the id of *)
(* the filesystem entry they were built from.                              *)
(***************************************************************************)
EXTENDS Integers, Sequences, FiniteSets, TLC

(***************************************************************************)
(* Bounds of the model.                                                    *)
(***************************************************************************)
\* how many of the candidate search-box texts the user may type
NumQueries == 5
\* how many of the candidate exclusion settings the user may save
NumExcludeOptions == 2

(***************************************************************************)
(* Strings.                                                                *)
(***************************************************************************)
\* str.lower() on one character: "A".."Z" map to "a".."z"
LowerChar(c) == IF c >= 65 /\ c <= 90 THEN c + 32 ELSE c

\* str.lower()
Lower(s) == [i \in 1..Len(s) |-> LowerChar(s[i])]

\* whitespace as str.strip() sees it (space, tab, newline, ...)
IsSpace(c) == c \in {32, 9, 10, 11, 12, 13}

RECURSIVE LStrip(_)
LStrip(s) == IF s # <<>> /\ IsSpace(Head(s)) THEN LStrip(Tail(s)) ELSE s

RECURSIVE RStrip(_)
RStrip(s) ==
    IF s # <<>> /\ IsSpace(s[Len(s)]) THEN RStrip(SubSeq(s, 1, Len(s) - 1)) ELSE s

\* str.strip()
Strip(s) == RStrip(LStrip(s))

\* Python's `sub in s` for strings
Contains(sub, s) ==
    \E i \in 0..(Len(s) - Len(sub)) : SubSeq(s, i + 1, i + Len(sub)) = sub

\* str.endswith
EndsWith(s, suf) ==
    Len(suf) <= Len(s) /\ SubSeq(s, Len(s) - Len(suf) + 1, Len(s)) = suf

\* Python's `a < b` for strings: code-point lexicographic order
RECURSIVE StrLess(_, _)
StrLess(a, b) ==
    IF b = <<>> THEN FALSE
    ELSE IF a = <<>> THEN TRUE
    ELSE IF Head(a) # Head(b) THEN Head(a) < Head(b)
    ELSE StrLess(Tail(a), Tail(b))

(***************************************************************************)
(* The filesystem the program runs on (what os.listdir / os.path.isdir /   *)
(* os.stat / open answer).                                                 *)
(*                                                                         *)
(*   r1/  ab/  c/  x                                                       *)
(*             d                                                           *)
(*        e/   a                                                           *)
(*             f                                                           *)
(*        B                                                                *)
(*   r2/  w/   m.p                                                         *)
(*        B        (size 1, modified 2, cannot be opened)                  *)
(*        a        (size 2, modified 1)                                    *)
(*   r3/  g/   y                                                           *)
(*             s   (os.stat fails)                                         *)
(*        p/   q/  k                                                       *)
(*             v/  (os.listdir fails)                                      *)
(*        z                                                                *)
(***************************************************************************)
FS ==
    << [name |-> <<114, 49>>, parent |-> 0, dir |-> TRUE,
        size |-> 0, mtime |-> 0, readable |-> FALSE,
        listable |-> TRUE, statable |-> TRUE],
       [name |-> <<97, 98>>, parent |-> 1, dir |-> TRUE,
        size |-> 0, mtime |-> 0, readable |-> FALSE,
        listable |-> TRUE, statable |-> TRUE],
       [name |-> <<99>>, parent |-> 2, dir |-> TRUE,
        size |-> 0, mtime |-> 0, readable |-> FALSE,
        listable |-> TRUE, statable |-> TRUE],
       [name |-> <<120>>, parent |-> 3, dir |-> FALSE,
        size |-> 1, mtime |-> 1, readable |-> TRUE,
        listable |-> TRUE, statable |-> TRUE],
       [name |-> <<100>>, parent |-> 2, dir |-> FALSE,
        size |-> 1, mtime |-> 1, readable |-> TRUE,
        listable |-> TRUE, statable |-> TRUE],
       [name |-> <<101>>, parent |-> 1, dir |-> TRUE,
        size |-> 0, mtime |-> 0, readable |-> FALSE,
        listable |-> TRUE, statable |-> TRUE],
       [name |-> <<97>>, parent |-> 6, dir |-> FALSE,
        size |-> 1, mtime |-> 1, readable |-> TRUE,
        listable |-> TRUE, statable |-> TRUE],
       [name |-> <<102>>, parent |-> 6, dir |-> FALSE,
        size |-> 1, mtime |-> 1, readable |-> TRUE,
        listable |-> TRUE, statable |-> TRUE],
       [name |-> <<66>>, parent |-> 1, dir |-> FALSE,
        size |-> 1, mtime |-> 1, readable |-> TRUE,
        listable |-> TRUE, statable |-> TRUE],
       [name |-> <<114, 50>>, parent |-> 0, dir |-> TRUE,
        size |-> 0, mtime |-> 0, readable |-> FALSE,
        listable |-> TRUE, statable |-> TRUE],
       [name |-> <<119>>, parent |-> 10, dir |-> TRUE,
        size |-> 0, mtime |-> 0, readable |-> FALSE,
        listable |-> TRUE, statable |-> TRUE],
       [name |-> <<109, 46, 112>>, parent |-> 11, dir |-> FALSE,
        size |-> 1, mtime |-> 1, readable |-> TRUE,
        listable |-> TRUE, statable |-> TRUE],
       [name |-> <<66>>, parent |-> 10, dir |-> FALSE,
        size |-> 1, mtime |-> 2, readable |-> FALSE,
        listable |-> TRUE, statable |-> TRUE],
       [name |-> <<97>>, parent |-> 10, dir |-> FALSE,
        size |-> 2, mtime |-> 1, readable |-> TRUE,
        listable |-> TRUE, statable |-> TRUE],
       [name |-> <<114, 51>>, parent |-> 0, dir |-> TRUE,
        size |-> 0, mtime |-> 0, readable |-> FALSE,
        listable |-> TRUE, statable |-> TRUE],
       [name |-> <<103>>, parent |-> 15, dir |-> TRUE,
        size |-> 0, mtime |-> 0, readable |-> FALSE,
        listable |-> TRUE, statable |-> TRUE],
       [name |-> <<121>>, parent |-> 16, dir |-> FALSE,
        size |-> 1, mtime |-> 1, readable |-> TRUE,
        listable |-> TRUE, statable |-> TRUE],
       [name |-> <<115>>, parent |-> 16, dir |-> FALSE,
        size |-> 1, mtime |-> 1, readable |-> TRUE,
        listable |-> TRUE, statable |-> FALSE],
       [name |-> <<112>>, parent |-> 15, dir |-> TRUE,
        size |-> 0, mtime |-> 0, readable |-> FALSE,
        listable |-> TRUE, statable |-> TRUE],
       [name |-> <<113>>, parent |-> 19, dir |-> TRUE,
        size |-> 0, mtime |-> 0, readable |-> FALSE,
        listable |-> TRUE, statable |-> TRUE],
       [name |-> <<107>>, parent |-> 20, dir |-> FALSE,
        size |-> 1, mtime |-> 1, readable |-> TRUE,
        listable |-> TRUE, statable |-> TRUE],
       [name |-> <<118>>, parent |-> 19, dir |-> TRUE,
        size |-> 0, mtime |-> 0, readable |-> FALSE,
        listable |-> FALSE, statable |-> TRUE],
       [name |-> <<122>>, parent |-> 15, dir |-> FALSE,
        size |-> 1, mtime |-> 1, readable |-> TRUE,
        listable |-> TRUE, statable |-> TRUE] >>

Nodes == 1..Len(FS)

\* the value of folder_path while no folder has been selected ("")
NoFolder == 0

\* the directories the user can pick in the folder dialog
Roots == {n \in Nodes : FS[n].dir /\ FS[n].parent = 0}

\* os.path.basename(path)
Name(n) == FS[n].name

\* isinstance(c, Collapsible) for a control of the tree
IsDir(n) == FS[n].dir

\* a file row of the tree
IsFile(n) == ~FS[n].dir

\* os.path.isdir(path): False when the entry cannot be stat'ed
OsIsDir(n) == FS[n].statable /\ FS[n].dir

\* os.path.isfile(path): False when the entry cannot be stat'ed
OsIsFile(n) == FS[n].statable /\ ~FS[n].dir

\* os.listdir(directory) raises
ListdirFails(d) == ~FS[d].listable

\* os.listdir(directory)
Listdir(d) == {n \in Nodes : FS[n].parent = d}

\* the candidate exclusion settings: the built-in default and what the
\* settings dialog can save
ExcludeOptionList ==
    << [extensions |-> {<<46, 112>>}, files |-> {<<105>>}, folders |-> {<<118>>},
        max_file_size |-> 4],
       [extensions |-> {}, files |-> {}, folders |-> {}, max_file_size |-> 4],
       [extensions |-> {}, files |-> {}, folders |-> {}, max_file_size |-> 1] >>

ExcludeOptions == {ExcludeOptionList[i] : i \in 1..NumExcludeOptions}

DefaultExcludePatterns == ExcludeOptionList[1]

\* what config.json can hold when the program starts: no file, a file that
\* is not JSON, or a JSON object with or without each of the two keys; a
\* stored exclude_patterns value is one of the candidate settings, or the
\* second of them with one of its four fields missing
StoredPatterns ==
    ExcludeOptions \cup
    {[k \in DOMAIN ExcludeOptionList[2] \ {missing} |-> ExcludeOptionList[2][k]] :
        missing \in DOMAIN ExcludeOptionList[2]}

StoredConfigs ==
    {[exists |-> FALSE, parses |-> FALSE, json |-> <<>>],
     [exists |-> TRUE, parses |-> FALSE, json |-> <<>>]}
    \cup {[exists |-> TRUE, parses |-> TRUE, json |-> j] :
             j \in {<<>>}
                 \cup {[last_folder_path |-> r] : r \in Roots}
                 \cup {[exclude_patterns |-> p] : p \in StoredPatterns}
                 \cup {[last_folder_path |-> r, exclude_patterns |-> p] :
                          r \in Roots, p \in StoredPatterns}}

\* _load_config(): the decoded file, or {} when there is none or it does
\* not parse
LoadConfig(file) == IF file.exists /\ file.parses THEN file.json ELSE <<>>

\* dict.get(key, default)
DictGet(d, key, default) == IF key \in DOMAIN d THEN d[key] ELSE default

\* the candidate texts of the search box: "", " ", "a", " B", "c", "x"
QueryList == << <<>>, <<32>>, <<97>>, <<32, 66>>, <<99>>, <<120>> >>

Queries == {QueryList[i] : i \in 1..NumQueries}

\* the options of the sort dropdown
SortKeys == {"name_asc", "name_desc", "date_asc", "date_desc", "size_asc", "size_desc"}

(***************************************************************************)
(* DirectoryScanner.                                                       *)
(***************************************************************************)
\* `key in exclude_patterns`
HasKey(pats, key) == key \in DOMAIN pats

\* _should_exclude(path, name) raises KeyError: a field of exclude_patterns
\* that is read on the way to the result is missing (the lookup of
\* max_file_size is inside the function's own try/except)
ShouldExcludeRaises(pats, n) ==
    \/ ~HasKey(pats, "extensions")
    \/ /\ ~ \E ext \in pats.extensions : EndsWith(Name(n), ext)
       /\ \/ ~HasKey(pats, "files")
          \/ /\ Name(n) \notin pats.files
             /\ OsIsDir(n)
             /\ ~HasKey(pats, "folders")

\* _should_exclude(path, name), when it returns
ShouldExclude(pats, n) ==
    \/ \E ext \in pats.extensions : EndsWith(Name(n), ext)
    \/ Name(n) \in pats.files
    \/ OsIsDir(n) /\ Name(n) \in pats.folders
    \/ OsIsFile(n) /\ (~HasKey(pats, "max_file_size") \/ FS[n].size > pats.max_file_size)

\* sorted(names): the entries of S in ascending code-point order of name
RECURSIVE SortedByName(_)
SortedByName(S) ==
    IF S = {} THEN <<>>
    ELSE LET m == CHOOSE x \in S : \A y \in S \ {x} : StrLess(Name(x), Name(y))
         IN  <<m>> \o SortedByName(S \ {m})

EmptyLoad == [controls |-> <<>>, keys |-> <<>>, orig |-> <<>>, failed |-> FALSE]

\* _load_directory(directory, controls): the controls appended for
\* `directory`, the keys added to check_values in insertion order, the
\* child list each Collapsible appended below was constructed with, and
\* whether the call raised (failed). When a call raises, the caller's loop
\* ends there: what the caller had appended so far stays in its list, the
\* keys already put into check_values stay, and the list of the call that
\* raised is dropped with the Collapsible that was never built for it.
RECURSIVE LoadDirectory(_, _)
RECURSIVE LoadFolders(_, _, _)
RECURSIVE AddFolder(_, _, _, _)

\* the entries of `directory` that pass _should_exclude
Items(pats, directory) == {i \in Listdir(directory) : ~ShouldExclude(pats, i)}

\* the loop over files, after the loop over folders gave fl
AddFiles(fl, files) ==
    IF fl.failed THEN fl
    ELSE [controls |-> fl.controls \o files,
          keys     |-> fl.keys \o files,
          orig     |-> fl.orig,
          failed   |-> FALSE]

LoadDirectory(pats, directory) ==
    IF \/ ListdirFails(directory)
       \/ \E i \in Listdir(directory) : ShouldExcludeRaises(pats, i)
    THEN [EmptyLoad EXCEPT !.failed = TRUE]
    ELSE AddFiles(LoadFolders(pats,
                              SortedByName({i \in Items(pats, directory) : OsIsDir(i)}),
                              EmptyLoad),
                  SortedByName({i \in Items(pats, directory) : OsIsFile(i)}))

\* the loop over folders: acc is what the loop has built so far
LoadFolders(pats, folders, acc) ==
    IF folders = <<>> THEN acc
    ELSE AddFolder(pats, folders, acc, LoadDirectory(pats, Head(folders)))

\* one round of the loop over folders, sub being what the recursive call
\* for Head(folders) gave
AddFolder(pats, folders, acc, sub) ==
    IF sub.failed
    THEN [acc EXCEPT !.keys = acc.keys \o sub.keys, !.failed = TRUE]
    ELSE LoadFolders(pats, Tail(folders),
            IF sub.controls # <<>>
            THEN [controls |-> Append(acc.controls, Head(folders)),
                  keys     |-> acc.keys \o sub.keys,
                  orig     |-> (Head(folders) :> sub.controls) @@ sub.orig @@ acc.orig,
                  failed   |-> FALSE]
            ELSE acc)

(***************************************************************************)
(* State of the program.                                                   *)
(***************************************************************************)
VARIABLES
    folder_path,          \* MarkdownCollector.folder_path (NoFolder or a root)
    exclude_patterns,     \* MarkdownCollector.exclude_patterns
    search_box,           \* search_box.value, as typed
    files_column,         \* files_column.controls: the visible top-level list
    original_controls,    \* MarkdownCollector.original_controls
    folder_original,      \* Collapsible._original_controls of every folder
    folder_controls,      \* Collapsible.content.controls of every folder
    folder_state,         \* Collapsible._folder_state: "True", "False", "None"
    cb_value,             \* Checkbox.value of every file row
    check_values,         \* MarkdownCollector.check_values: [keys, val]
    output_text,          \* output_text.value, as a structured document
    lastOp                \* history: the handler that ran last and its input

vars == << folder_path, exclude_patterns, search_box, files_column,
           original_controls, folder_original, folder_controls, folder_state,
           cb_value, check_values, output_text, lastOp >>

\* the three values of Collapsible._folder_state
StateOf(checked) == IF checked THEN "True" ELSE "False"

(***************************************************************************)
(* check_values is a dict: a mapping plus the insertion order of its keys. *)
(***************************************************************************)
EmptyDict == [keys |-> <<>>, val |-> <<>>]

InDict(d, k) == \E i \in 1..Len(d.keys) : d.keys[i] = k

\* a variant that moves the key to the end (del d[k]; d[k] = v)
DictSet_Reinserted(d, k, v) ==
    [keys |-> Append(SelectSeq(d.keys, LAMBDA x : x # k), k),
     val  |-> (k :> v) @@ d.val]

\* d[k] = v
DictSet(d, k, v) ==
    IF InDict(d, k)
    THEN [d EXCEPT !.val = [x \in DOMAIN d.val |-> IF x = k THEN v ELSE d.val[x]]]
    ELSE [keys |-> Append(d.keys, k), val |-> (k :> v) @@ d.val]

(***************************************************************************)
(* Output Generator.                                                       *)
(***************************************************************************)
\* os.path.relpath(path, folder_path), split into its segments
RECURSIVE RelPath(_, _)
RelPath(root, n) ==
    IF FS[n].parent = root \/ FS[n].parent = 0 THEN <<Name(n)>>
    ELSE Append(RelPath(root, FS[n].parent), Name(n))

\* sorted(strings)
RECURSIVE SortedStrings(_)
SortedStrings(S) ==
    IF S = {} THEN <<>>
    ELSE LET m == CHOOSE x \in S : \A y \in S \ {x} : StrLess(x, y)
         IN  <<m>> \o SortedStrings(S \ {m})

\* build_str(subtree, prefix): `paths` are the paths below this level (the
\* prefix tree of add_to_tree), `items` the sorted names still to draw
RECURSIVE BuildStr(_, _)
RECURSIVE BuildItems(_, _, _)
BuildStr(paths, prefix) ==
    BuildItems(paths, SortedStrings({Head(p) : p \in paths}), prefix)

\* a variant that draws every sibling like one that has siblings after it
BuildItems_AllTee(paths, items, prefix) ==
    IF items = <<>> THEN <<>>
    ELSE LET name  == Head(items)
             below == {Tail(p) : p \in {q \in paths : Head(q) = name /\ Len(q) > 1}}
             line  == [prefix |-> prefix, connector |-> "tee", name |-> name]
         IN  <<line>>
             \o (IF below # {} THEN BuildStr(below, Append(prefix, "bar")) ELSE <<>>)
             \o BuildItems(paths, Tail(items), prefix)

BuildItems(paths, items, prefix) ==
    IF items = <<>> THEN <<>>
    ELSE LET name      == Head(items)
             is_last   == Len(items) = 1
             connector == IF is_last THEN "corner" ELSE "tee"
             extension == IF is_last THEN "blank" ELSE "bar"
             below     == {Tail(p) : p \in {q \in paths : Head(q) = name /\ Len(q) > 1}}
             line      == [prefix |-> prefix, connector |-> connector, name |-> name]
         IN  <<line>>
             \o (IF below # {} THEN BuildStr(below, Append(prefix, extension)) ELSE <<>>)
             \o BuildItems(paths, Tail(items), prefix)

\* the keys of check_values whose value is true, in the dict's order
CheckedKeys(cv) == SelectSeq(cv.keys, LAMBDA k : cv.val[k])

\* a variant that draws every file of check_values, selected or not
GenerateTreeStructure_AllKeys(root, cv) ==
    LET tree == {RelPath(root, cv.keys[i]) : i \in 1..Len(cv.keys)}
    IN  IF tree = {} THEN <<>>
        ELSE <<[prefix |-> <<>>, connector |-> "root", name |-> Name(root)]>>
             \o BuildStr(tree, <<>>)

\* _generate_tree_structure(): no lines at all when nothing is selected,
\* else the root's name followed by the drawn tree
GenerateTreeStructure(root, cv) ==
    LET checked == CheckedKeys(cv)
        tree    == {RelPath(root, checked[i]) : i \in 1..Len(checked)}
    IN  IF tree = {} THEN <<>>
        ELSE <<[prefix |-> <<>>, connector |-> "root", name |-> Name(root)]>>
             \o BuildStr(tree, <<>>)

\* one "## rel_path" block: the file's content, or the error text
DocBlock(root, f) ==
    [heading |-> RelPath(root, f),
     body    |-> IF FS[f].readable THEN "content" ELSE "error",
     file    |-> IF FS[f].readable THEN f ELSE 0]

\* a variant in which the first file that cannot be read ends the loop
UpdateMarkdownOutput_Aborting(root, cv) ==
    LET checked == CheckedKeys(cv)
        ok      == {i \in 1..Len(checked) : \A j \in 1..i : FS[checked[j]].readable}
    IN  [tree |-> GenerateTreeStructure(root, cv),
         docs |-> [i \in 1..Cardinality(ok) |-> DocBlock(root, checked[i])]]

\* update_markdown_output(): the value given to output_text
UpdateMarkdownOutput(root, cv) ==
    LET checked == CheckedKeys(cv)
    IN  [tree |-> GenerateTreeStructure(root, cv),
         docs |-> [i \in 1..Len(checked) |-> DocBlock(root, checked[i])]]

\* output_text.value before anything was generated: the empty text
EmptyOutput == [tree |-> <<>>, docs |-> <<>>]

(***************************************************************************)
(* SelectionTree / Propagation Engine.                                     *)
(* The handlers below read the view (files_column, folder_controls) and    *)
(* thread the selection state st = [fs, cb, cv, out, gens] through their   *)
(* steps: fs = folder_state, cb = cb_value, cv = check_values,             *)
(* out = output_text, and gens = the value check_values had at each call   *)
(* of update_markdown_output the handler has made so far.                  *)
(***************************************************************************)
\* Collapsible.get_all_files(): the file rows below d in its current lists
RECURSIVE GetAllFilesIn(_, _)
GetAllFilesIn(ctl, cs) ==
    IF cs = <<>> THEN <<>>
    ELSE LET c == Head(cs)
         IN  (IF IsDir(c) THEN GetAllFilesIn(ctl, ctl[c]) ELSE <<c>>)
             \o GetAllFilesIn(ctl, Tail(cs))

GetAllFiles(ctl, d) == GetAllFilesIn(ctl, ctl[d])

\* Collapsible.recalc_folder_state(): the new _folder_state of d
RecalcFolderState(ctl, cb, d) ==
    LET all_files == GetAllFiles(ctl, d)
        all_on    == \A i \in 1..Len(all_files) : cb[all_files[i]]
        none_on   == ~ \E i \in 1..Len(all_files) : cb[all_files[i]]
    IN  IF all_files = <<>> THEN "False"
        ELSE IF all_on THEN "True"
        ELSE IF none_on THEN "False"
        ELSE "None"

\* _recalc_parent_folders(): recurse(c) over the controls cs
RECURSIVE Recurse(_, _, _, _)
Recurse(ctl, cb, fs, cs) ==
    IF cs = <<>> THEN fs
    ELSE LET c   == Head(cs)
             fs1 == IF IsDir(c)
                    THEN LET below == Recurse(ctl, cb, fs, ctl[c])
                         IN  [below EXCEPT ![c] = RecalcFolderState(ctl, cb, c)]
                    ELSE fs
         IN  Recurse(ctl, cb, fs1, Tail(cs))

\* a variant that leaves the cached tri-states as they are
RecalcParentFolders_Skipped(fs, cb) == fs

RecalcParentFolders(fs, cb) == Recurse(folder_controls, cb, fs, files_column)

\* checkbox_changed(e) for the checkbox of file f, whose value is st.cb[f]
CheckboxChanged(st, f) ==
    LET cv == DictSet(st.cv, f, st.cb[f])
    IN  [st EXCEPT !.cv   = cv,
                   !.fs   = RecalcParentFolders(st.fs, st.cb),
                   !.out  = UpdateMarkdownOutput(folder_path, cv),
                   !.gens = Append(st.gens, cv)]

\* Collapsible.set_files_checked(checked) on folder d; SetChildren is its
\* loop over d's current child list
RECURSIVE SetFilesChecked(_, _, _)
RECURSIVE SetChildren(_, _, _)
SetFilesChecked(st, d, checked) ==
    SetChildren([st EXCEPT !.fs[d] = StateOf(checked)], folder_controls[d], checked)

SetChildren(st, cs, checked) ==
    IF cs = <<>> THEN st
    ELSE LET c   == Head(cs)
             st1 == IF IsDir(c)
                    THEN SetFilesChecked(st, c, checked)
                    ELSE CheckboxChanged([st EXCEPT !.cb[c] = checked], c)
         IN  SetChildren(st1, Tail(cs), checked)

\* the loop of _update_folder_state / _select_all_files over get_all_files()
RECURSIVE SetCheckValues(_, _, _)
SetCheckValues(cv, files, v) ==
    IF files = <<>> THEN cv
    ELSE SetCheckValues(DictSet(cv, Head(files), v), Tail(files), v)

\* a variant that writes the folder's value to every file of the view
UpdateFolderState_WholeView(st, folder) ==
    LET cv == SetCheckValues(st.cv, GetAllFilesIn(folder_controls, files_column),
                             st.fs[folder] = "True")
    IN  [st EXCEPT !.cv   = cv,
                   !.fs   = RecalcParentFolders(st.fs, st.cb),
                   !.out  = UpdateMarkdownOutput(folder_path, cv),
                   !.gens = Append(st.gens, cv)]

\* _update_folder_state(folder)
UpdateFolderState(st, folder) ==
    LET cv == SetCheckValues(st.cv, GetAllFiles(folder_controls, folder),
                             st.fs[folder] = "True")
    IN  [st EXCEPT !.cv   = cv,
                   !.fs   = RecalcParentFolders(st.fs, st.cb),
                   !.out  = UpdateMarkdownOutput(folder_path, cv),
                   !.gens = Append(st.gens, cv)]

\* Collapsible._folder_checkbox_clicked(e) on folder d
FolderCheckboxClicked(st, d) ==
    UpdateFolderState(SetFilesChecked(st, d, st.fs[d] # "True"), d)

\* the loop of _select_all_files (checked) / _deselect_all_files (~checked)
RECURSIVE SetAllLoop(_, _, _)
SetAllLoop(st, cs, checked) ==
    IF cs = <<>> THEN st
    ELSE LET c   == Head(cs)
             st1 == IF IsDir(c)
                    THEN LET s1    == SetFilesChecked(st, c, checked)
                             files == GetAllFiles(folder_controls, c)
                         IN  [s1 EXCEPT
                                !.cv = SetCheckValues(s1.cv, files, checked),
                                !.cb = [f \in DOMAIN s1.cb |->
                                          IF \E i \in 1..Len(files) : files[i] = f
                                          THEN checked ELSE s1.cb[f]]]
                    ELSE [st EXCEPT !.cb[c] = checked,
                                    !.cv    = DictSet(st.cv, c, checked)]
         IN  SetAllLoop(st1, Tail(cs), checked)

\* a variant that sets every file of the scanned tree, shown or hidden
SetAllFiles_WholeTree(st, checked) ==
    LET cv == [keys |-> st.cv.keys, val |-> [f \in DOMAIN st.cv.val |-> checked]]
    IN  [st EXCEPT !.cb   = [f \in DOMAIN st.cb |-> checked],
                   !.cv   = cv,
                   !.fs   = [d \in DOMAIN st.fs |-> StateOf(checked)],
                   !.out  = UpdateMarkdownOutput(folder_path, cv),
                   !.gens = Append(st.gens, cv)]

\* _select_all_files(e) / _deselect_all_files(e)
SetAllFiles(st, checked) ==
    LET s1 == SetAllLoop(st, files_column, checked)
    IN  [s1 EXCEPT !.out  = UpdateMarkdownOutput(folder_path, s1.cv),
                   !.gens = Append(s1.gens, s1.cv)]

(***************************************************************************)
(* Filter Engine.                                                          *)
(***************************************************************************)
\* a variant that restores nothing before filtering
RestoreOriginalState_Skipped(ctl, d) == ctl

\* Collapsible.restore_original_state() on folder d
RECURSIVE RestoreOriginalState(_, _)
RECURSIVE RestoreChildren(_, _)
RestoreOriginalState(ctl, d) ==
    RestoreChildren([ctl EXCEPT ![d] = folder_original[d]], folder_original[d])

RestoreChildren(ctl, cs) ==
    IF cs = <<>> THEN ctl
    ELSE LET c == Head(cs)
         IN  RestoreChildren(IF IsDir(c) THEN RestoreOriginalState(ctl, c) ELSE ctl,
                             Tail(cs))

\* Collapsible.apply_filter(search_text) on folder d: the child lists
\* afterwards (ctl), and the value returned (has)
RECURSIVE ApplyFilter(_, _, _)
RECURSIVE FilterChildren(_, _, _, _)
ApplyFilter(ctl, d, search_text) ==
    LET restored          == RestoreOriginalState(ctl, d)
        folder_name_match == Contains(search_text, Lower(Name(d)))
        r                 == FilterChildren(restored, restored[d], search_text, <<>>)
    IN  [ctl |-> IF folder_name_match THEN r.ctl
                 ELSE [r.ctl EXCEPT ![d] = r.filtered],
         has |-> folder_name_match \/ Len(r.filtered) > 0]

FilterChildren(ctl, cs, search_text, filtered) ==
    IF cs = <<>> THEN [ctl |-> ctl, filtered |-> filtered]
    ELSE LET c == Head(cs)
         IN  IF IsDir(c)
             THEN LET sub == ApplyFilter(ctl, c, search_text)
                  IN  FilterChildren(sub.ctl, Tail(cs), search_text,
                                     IF sub.has THEN Append(filtered, c) ELSE filtered)
             ELSE FilterChildren(ctl, Tail(cs), search_text,
                                 IF Contains(search_text, Lower(Name(c)))
                                 THEN Append(filtered, c) ELSE filtered)

\* the "filter cleared" branch of _filter_files: the loop over
\* original_controls
RECURSIVE RestoreAll(_, _)
RestoreAll(ctl, cs) ==
    IF cs = <<>> THEN ctl
    ELSE LET c == Head(cs)
         IN  RestoreAll(IF IsDir(c) THEN RestoreOriginalState(ctl, c) ELSE ctl, Tail(cs))

\* the "filter applied" branch of _filter_files: the loop over
\* original_controls
RECURSIVE FilterTop(_, _, _, _)
FilterTop(ctl, cs, search_text, filtered) ==
    IF cs = <<>> THEN [ctl |-> ctl, filtered |-> filtered]
    ELSE LET c == Head(cs)
         IN  IF IsDir(c)
             THEN LET sub == ApplyFilter(RestoreOriginalState(ctl, c), c, search_text)
                  IN  FilterTop(sub.ctl, Tail(cs), search_text,
                                IF sub.has THEN Append(filtered, c) ELSE filtered)
             ELSE FilterTop(ctl, Tail(cs), search_text,
                            IF Contains(search_text, Lower(Name(c)))
                            THEN Append(filtered, c) ELSE filtered)

\* _filter_files(e) with search_box.value = text: the new child lists of
\* the folders (ctl) and the new files_column.controls (view)
FilterFiles(text) ==
    LET search_text == Lower(Strip(text))
    IN  IF search_text = <<>>
        THEN [ctl  |-> RestoreAll(folder_controls, original_controls),
              view |-> original_controls]
        ELSE LET r == FilterTop(folder_controls, original_controls, search_text, <<>>)
             IN  [ctl |-> r.ctl, view |-> r.filtered]

(***************************************************************************)
(* Sort Engine.                                                            *)
(***************************************************************************)
\* a variant that never reverses
Reverse_Never(sort_key) == FALSE

\* sort_key.endswith("desc")
Reverse(sort_key) == sort_key \in {"name_desc", "date_desc", "size_desc"}

\* get_sort_value(a) < get_sort_value(b), for two folders or two files
SortValueLess(sort_key, a, b) ==
    IF IsDir(a) THEN StrLess(Lower(Name(a)), Lower(Name(b)))
    ELSE IF sort_key \in {"name_asc", "name_desc"}
         THEN StrLess(Lower(Name(a)), Lower(Name(b)))
    ELSE IF sort_key \in {"date_asc", "date_desc"}
         THEN FS[a].mtime < FS[b].mtime
    ELSE FS[a].size < FS[b].size

\* list.sort(key=get_sort_value, reverse=reverse) is stable in both
\* directions: x goes in front of the first element that must follow it
RECURSIVE InsertSorted(_, _, _)
InsertSorted(sort_key, sorted, x) ==
    IF sorted = <<>> THEN <<x>>
    ELSE LET e      == Head(sorted)
             before == IF Reverse(sort_key) THEN SortValueLess(sort_key, e, x)
                       ELSE SortValueLess(sort_key, x, e)
         IN  IF before THEN <<x>> \o sorted
             ELSE <<e>> \o InsertSorted(sort_key, Tail(sorted), x)

RECURSIVE SortList(_, _, _)
SortList(sort_key, cs, sorted) ==
    IF cs = <<>> THEN sorted
    ELSE SortList(sort_key, Tail(cs), InsertSorted(sort_key, sorted, Head(cs)))

\* a variant that takes the sorted view as the new baseline even while a
\* filter is active
SortFiles_AlwaysCopied(view, orig, text, sort_key) ==
    IF view = <<>> THEN [view |-> view, orig |-> orig]
    ELSE LET folders == SortList(sort_key, SelectSeq(view, IsDir), <<>>)
             files   == SortList(sort_key, SelectSeq(view, IsFile), <<>>)
         IN  [view |-> folders \o files, orig |-> folders \o files]

\* _sort_files(e): the new files_column.controls (view) and
\* original_controls (orig), from the current ones and the search text
SortFiles(view, orig, text, sort_key) ==
    IF view = <<>> THEN [view |-> view, orig |-> orig]
    ELSE LET folders == SortList(sort_key, SelectSeq(view, IsDir), <<>>)
             files   == SortList(sort_key, SelectSeq(view, IsFile), <<>>)
             sorted  == folders \o files
         IN  [view |-> sorted,
              orig |-> IF Strip(text) = <<>> THEN sorted ELSE orig]

\* the nodes reachable from the controls cs through the lists ctl
RECURSIVE ReachableIn(_, _)
ReachableIn(ctl, cs) ==
    IF cs = <<>> THEN {}
    ELSE LET c == Head(cs)
         IN  {c} \cup (IF IsDir(c) THEN ReachableIn(ctl, ctl[c]) ELSE {})
                 \cup ReachableIn(ctl, Tail(cs))

(***************************************************************************)
(* Rescan.                                                                 *)
(***************************************************************************)
\* the rest of _load_files, after _load_directory gave `loaded`
Loaded(loaded, text) ==
    LET sorted == SortFiles(loaded.controls, loaded.controls, text, "name_asc")
        keys   == {loaded.keys[i] : i \in 1..Len(loaded.keys)}
    IN  [files_column      |-> sorted.view,
         original_controls |-> sorted.orig,
         folder_original   |-> loaded.orig,
         folder_controls   |-> loaded.orig,
         folder_state      |-> [d \in DOMAIN loaded.orig |-> "False"],
         cb_value          |-> [f \in keys \cap ReachableIn(loaded.orig, loaded.controls)
                                    |-> FALSE],
         check_values      |-> [keys |-> loaded.keys, val |-> [f \in keys |-> FALSE]]]

\* _load_files(): everything it rebuilds, for the folder `root` under the
\* exclusion rules `pats`, with search_box.value = text
LoadFiles(root, pats, text) == Loaded(LoadDirectory(pats, root), text)

\* the state before any folder was loaded
NothingLoaded ==
    [files_column      |-> <<>>,
     original_controls |-> <<>>,
     folder_original   |-> <<>>,
     folder_controls   |-> <<>>,
     folder_state      |-> <<>>,
     cb_value          |-> <<>>,
     check_values      |-> EmptyDict]

(***************************************************************************)
(* The current view.                                                       *)
(***************************************************************************)
\* the rows the user can click: those shown in the file list
Visible == ReachableIn(folder_controls, files_column)

VisibleFiles == {n \in Visible : IsFile(n)}

VisibleFolders == {n \in Visible : IsDir(n)}

(***************************************************************************)
(* Specification: one action per event handler.                            *)
(***************************************************************************)
\* lastOp: the handler that ran, the row it was clicked on, and val = the
\* value a checkbox click resolved to / the value of select-all / for an edit
\* of the search box, whether a non-blank filter was active before the edit;
\* text = the entry picked in the sort dropdown ("" for the other handlers)
Op(op, node, val, text) == [op |-> op, node |-> node, val |-> val, text |-> text]

\* the selection state a handler starts from
Sel ==
    [fs |-> folder_state, cb |-> cb_value, cv |-> check_values, out |-> output_text,
     gens |-> <<>>]

SetLoaded(l) ==
    /\ files_column' = l.files_column
    /\ original_controls' = l.original_controls
    /\ folder_original' = l.folder_original
    /\ folder_controls' = l.folder_controls
    /\ folder_state' = l.folder_state
    /\ cb_value' = l.cb_value
    /\ check_values' = l.check_values

SetSel(st) ==
    /\ folder_state' = st.fs
    /\ cb_value' = st.cb
    /\ check_values' = st.cv
    /\ output_text' = st.out

\* the tree state right after construction
InitLoaded(l) ==
    /\ files_column = l.files_column
    /\ original_controls = l.original_controls
    /\ folder_original = l.folder_original
    /\ folder_controls = l.folder_controls
    /\ folder_state = l.folder_state
    /\ cb_value = l.cb_value
    /\ check_values = l.check_values

\* __init__: the stored configuration names no folder, or a folder that is
\* loaded at once; the exclusion rules are the stored or the default ones
Init ==
    /\ \E file \in StoredConfigs :
          /\ folder_path = DictGet(LoadConfig(file), "last_folder_path", NoFolder)
          /\ exclude_patterns =
                 DictGet(LoadConfig(file), "exclude_patterns", DefaultExcludePatterns)
    /\ search_box = <<>>
    /\ output_text = EmptyOutput
    /\ InitLoaded(IF folder_path = NoFolder THEN NothingLoaded
                  ELSE LoadFiles(folder_path, exclude_patterns, <<>>))
    /\ lastOp = Op("init", 0, FALSE, "")

\* the user clicks the checkbox of a visible file: the toolkit flips its
\* value and calls checkbox_changed
FileCheckbox(f) ==
    /\ f \in VisibleFiles
    /\ SetSel(CheckboxChanged([Sel EXCEPT !.cb[f] = ~cb_value[f]], f))
    /\ lastOp' = Op("setFile", f, ~cb_value[f], "")
    /\ UNCHANGED << folder_path, exclude_patterns, search_box, files_column,
                    original_controls, folder_original, folder_controls >>

\* the user clicks the checkbox icon of a visible folder
FolderCheckbox(d) ==
    /\ d \in VisibleFolders
    /\ SetSel(FolderCheckboxClicked(Sel, d))
    /\ lastOp' = Op("toggleFolder", d, folder_state[d] # "True", "")
    /\ UNCHANGED << folder_path, exclude_patterns, search_box, files_column,
                    original_controls, folder_original, folder_controls >>

\* the "select all" / "deselect all" buttons
SelectAll(checked) ==
    /\ SetSel(SetAllFiles(Sel, checked))
    /\ lastOp' = Op("setAll", 0, checked, "")
    /\ UNCHANGED << folder_path, exclude_patterns, search_box, files_column,
                    original_controls, folder_original, folder_controls >>

\* a variant that recalculates the tri-states from the filtered lists
Filter_Recalculated(text) ==
    /\ text # search_box
    /\ search_box' = text
    /\ LET r == FilterFiles(text)
       IN  /\ folder_controls' = r.ctl
           /\ files_column' = r.view
           /\ folder_state' = Recurse(r.ctl, cb_value, folder_state, r.view)
    /\ lastOp' = Op("filter", 0, Strip(search_box) # <<>>, "")
    /\ UNCHANGED << folder_path, exclude_patterns, original_controls, folder_original,
                    cb_value, check_values, output_text >>

\* the user edits the search box to `text`
Filter(text) ==
    /\ text # search_box
    /\ search_box' = text
    /\ LET r == FilterFiles(text)
       IN  /\ folder_controls' = r.ctl
           /\ files_column' = r.view
    /\ lastOp' = Op("filter", 0, Strip(search_box) # <<>>, "")
    /\ UNCHANGED << folder_path, exclude_patterns, original_controls, folder_original,
                    folder_state, cb_value, check_values, output_text >>

\* a variant that recalculates the tri-states from the sorted view
Sort_Recalculated(sort_key) ==
    /\ LET r == SortFiles(files_column, original_controls, search_box, sort_key)
       IN  /\ files_column' = r.view
           /\ original_controls' = r.orig
           /\ folder_state' = Recurse(folder_controls, cb_value, folder_state, r.view)
    /\ lastOp' = Op("sort", 0, FALSE, sort_key)
    /\ UNCHANGED << folder_path, exclude_patterns, search_box, folder_original,
                    folder_controls, cb_value, check_values, output_text >>

\* a variant that sorts the child list of every folder as well
Sort_TreeWide(sort_key) ==
    /\ LET r == SortFiles(files_column, original_controls, search_box, sort_key)
       IN  /\ files_column' = r.view
           /\ original_controls' = r.orig
    /\ folder_controls' =
           [d \in DOMAIN folder_controls |->
               SortFiles(folder_controls[d], <<>>, search_box, sort_key).view]
    /\ lastOp' = Op("sort", 0, FALSE, sort_key)
    /\ UNCHANGED << folder_path, exclude_patterns, search_box, folder_original,
                    folder_state, cb_value, check_values, output_text >>

\* the user picks an entry of the sort dropdown
Sort(sort_key) ==
    /\ LET r == SortFiles(files_column, original_controls, search_box, sort_key)
       IN  /\ files_column' = r.view
           /\ original_controls' = r.orig
    /\ lastOp' = Op("sort", 0, FALSE, sort_key)
    /\ UNCHANGED << folder_path, exclude_patterns, search_box, folder_original,
                    folder_controls, folder_state, cb_value, check_values, output_text >>

\* get_folder_result: the user picked a folder in the dialog
SelectFolder(root) ==
    /\ folder_path' = root
    /\ SetLoaded(LoadFiles(root, exclude_patterns, search_box))
    /\ lastOp' = Op("rescan", root, FALSE, "")
    /\ UNCHANGED << exclude_patterns, search_box, output_text >>

\* save_settings: the user saved the exclusion settings dialog
SaveSettings(pats) ==
    /\ exclude_patterns' = pats
    /\ IF folder_path # NoFolder
       THEN SetLoaded(LoadFiles(folder_path, pats, search_box))
       ELSE UNCHANGED << files_column, original_controls, folder_original,
                         folder_controls, folder_state, cb_value, check_values >>
    /\ lastOp' = Op("settings", 0, FALSE, "")
    /\ UNCHANGED << folder_path, search_box, output_text >>

Next ==
    \/ \E f \in Nodes : FileCheckbox(f)
    \/ \E d \in Nodes : FolderCheckbox(d)
    \/ \E checked \in BOOLEAN : SelectAll(checked)
    \/ \E text \in Queries : Filter(text)
    \/ \E sort_key \in SortKeys : Sort(sort_key)
    \/ \E root \in Roots : SelectFolder(root)
    \/ \E pats \in ExcludeOptions : SaveSettings(pats)

Spec == Init /\ [][Next]_vars

(***************************************************************************)
(* Properties.                                                             *)
(***************************************************************************)
Range(seq) == {seq[i] : i \in 1..Len(seq)}

\* the folders and files of the scanned tree
TreeFolders == DOMAIN folder_original

TreeFiles == DOMAIN cb_value

\* all descendant files of folder d in the unfiltered tree
AllFilesBelow(d) == Range(GetAllFiles(folder_original, d))

\* all descendants (folders and files) of folder d in the unfiltered tree
AllNodesBelow(d) == ReachableIn(folder_original, folder_original[d])

\* the ancestor folders of file f
Ancestors(f) == {d \in TreeFolders : f \in AllFilesBelow(d)}

\* the list a node of the tree is shown in, and its unfiltered version
ShownIn(n) ==
    IF FS[n].parent = folder_path THEN files_column ELSE folder_controls[FS[n].parent]

\* search_text of _filter_files
SearchText == Lower(Strip(search_box))

NameMatches(n) == Contains(SearchText, Lower(Name(n)))

FilterActive == SearchText # <<>>

\* C1: every folder's cached tri-state is the function of ALL its descendant
\* files in the unfiltered tree (AllSelected iff at least one and all are
\* selected, NoneSelected iff none is, Mixed otherwise), after any sequence
\* of operations.
C1_TriStateOfAllDescendants ==
    \A d \in TreeFolders :
        folder_state[d] = RecalcFolderState(folder_original, cb_value, d)

\* C2: a folder checkbox click resolved to v sets the selected flag of EVERY
\* descendant file of the folder in the scanned tree to v, in the checkbox
\* and in check_values, filter or no filter.
C2_SetFolderSetsEveryDescendant ==
    lastOp.op = "toggleFolder" =>
        \A f \in AllFilesBelow(lastOp.node) :
            cb_value[f] = lastOp.val /\ check_values.val[f] = lastOp.val

\* C3: right after setFolder(d, true) the tri-state of d is AllSelected, and
\* right after setFolder(d, false) it is NoneSelected, for every folder
\* reachable in the view.
C3_SetFolderGivesItsTriState ==
    lastOp.op = "toggleFolder" => folder_state[lastOp.node] = StateOf(lastOp.val)

\* C4: right after a file's checkbox changed to checked, no ancestor folder
\* of the file is NoneSelected.
C4_AncestorsNotNoneSelected ==
    (lastOp.op = "setFile" /\ lastOp.val) =>
        \A d \in Ancestors(lastOp.node) : folder_state[d] # "False"

\* C4 witness: a file two folders deep was checked while a filter was active
C4_Witness ==
    /\ lastOp.op = "setFile"
    /\ lastOp.val
    /\ Cardinality(Ancestors(lastOp.node)) >= 2
    /\ FilterActive

\* C5: toggling a folder deselects all its descendant files when its
\* tri-state was AllSelected and selects all of them when it was Mixed or
\* NoneSelected.
C5_ToggleFolder ==
    [][lastOp'.op = "toggleFolder" =>
         \A f \in AllFilesBelow(lastOp'.node) :
             cb_value'[f] = (folder_state[lastOp'.node] # "True")]_vars

\* C6: applying or clearing a filter changes no file's selected flag, no
\* entry of check_values and no folder's cached tri-state.
C6_FilterKeepsSelection ==
    [][lastOp'.op = "filter" =>
         /\ cb_value' = cb_value
         /\ check_values' = check_values
         /\ folder_state' = folder_state]_vars

\* C6 witness: a filter that hides rows was applied over a selection with a
\* Mixed folder
C6_Witness ==
    /\ lastOp.op = "filter"
    /\ FilterActive
    /\ \E f \in TreeFiles : cb_value[f] /\ f \notin Visible
    /\ \E d \in TreeFolders : folder_state[d] = "None"

\* C7: after applyFilter, a folder whose own name contains the query keeps
\* its entire unfiltered content: every descendant, at every depth, is
\* reachable in the filtered view.
C7_MatchingFolderKeepsAll ==
    (lastOp.op = "filter" /\ FilterActive) =>
        \A d \in VisibleFolders :
            NameMatches(d) => AllNodesBelow(d) \subseteq Visible

\* C8: after applyFilter(q), q non-blank: a file at the top level or inside
\* a folder whose name does not match is visible iff its name contains q;
\* a folder is retained in its parent's visible list iff its name contains
\* q or at least one of its descendants is retained.
C8_RetainedIffMatch ==
    (lastOp.op = "filter" /\ FilterActive) =>
        /\ \A f \in TreeFiles :
              (FS[f].parent = folder_path \/ ~NameMatches(FS[f].parent)) =>
                  (f \in Visible <=> NameMatches(f))
        /\ \A d \in TreeFolders :
              d \in Range(ShownIn(d)) <=>
                  (NameMatches(d) \/ \E n \in AllNodesBelow(d) : n \in Range(ShownIn(n)))

\* C9: whatever filters were applied before, the view after applyFilter(q)
\* is the one a single applyFilter(q) yields from the unfiltered baseline,
\* at every level of the tree.
C9_FilterFromBaseline ==
    (lastOp.op = "filter" /\ FilterActive) =>
        LET r == FilterTop(folder_original, original_controls, SearchText, <<>>)
        IN  /\ files_column = r.filtered
            /\ folder_controls = r.ctl

\* C9 witness: a query was applied right after another one, and hides rows
C9_Witness ==
    /\ lastOp.op = "filter"
    /\ lastOp.val
    /\ FilterActive
    /\ Visible # TreeFolders \cup TreeFiles
    /\ files_column # <<>>

\* C10: with a blank search text (after clearFilter or a whitespace-only
\* query) the top-level list and every folder's child list are exactly the
\* unfiltered lists; and these are the lists as they were before the filter
\* was applied: nothing but a rescan changes them while a filter is active.
C10_ClearRestoresBaseline ==
    [][/\ ~FilterActive' =>
            /\ files_column' = original_controls'
            /\ folder_controls' = folder_original'
       /\ (FilterActive /\ lastOp'.op \notin {"rescan", "settings"}) =>
            /\ original_controls' = original_controls
            /\ folder_original' = folder_original]_vars

\* C10 witness: a whitespace-only query replaced a non-blank filter over a
\* tree with folders
C10_Witness ==
    /\ lastOp.op = "filter"
    /\ lastOp.val
    /\ search_box # <<>>
    /\ ~FilterActive
    /\ Len(files_column) >= 3
    /\ TreeFolders # {}

\* the two rows are in the order the picked entry asks for
InSortOrder(sort_key, a, b) ==
    IF sort_key \in {"name_desc", "date_desc", "size_desc"}
    THEN ~SortValueLess(sort_key, a, b)
    ELSE ~SortValueLess(sort_key, b, a)

\* C11: sort replaces the visible top-level list by a permutation of itself
\* in which every folder precedes every file for both directions, folders
\* are ordered by lowercase name and files by the chosen key, each partition
\* in the chosen direction.
C11_SortPermutesFoldersFirst ==
    [][lastOp'.op = "sort" =>
         LET sorted == files_column'
             n      == Len(sorted)
         IN  /\ n = Len(files_column)
             /\ Range(sorted) = Range(files_column)
             /\ \A i, j \in 1..n : i < j =>
                   /\ sorted[i] # sorted[j]
                   /\ IsFile(sorted[i]) => IsFile(sorted[j])
                   /\ IsDir(sorted[i]) = IsDir(sorted[j]) =>
                          InSortOrder(lastOp'.text, sorted[i], sorted[j])]_vars

\* C11 witness: a descending sort by size of a list with a folder and two
\* files of different size
C11_Witness ==
    /\ lastOp.op = "sort"
    /\ lastOp.text = "size_desc"
    /\ \E i, j, k \in 1..Len(files_column) :
          /\ IsDir(files_column[i])
          /\ IsFile(files_column[j]) /\ IsFile(files_column[k])
          /\ FS[files_column[j]].size > FS[files_column[k]].size

\* C12: sort leaves check_values, every file's selected flag, every
\* folder's tri-state and the generated output document unchanged, for every
\* key and direction.
C12_SortKeepsSelectionAndOutput ==
    [][lastOp'.op = "sort" =>
         /\ check_values' = check_values
         /\ cb_value' = cb_value
         /\ folder_state' = folder_state
         /\ output_text' = output_text]_vars

\* C12 witness: a descending sort of several rows over a selection with a
\* Mixed folder and a non-empty document
C12_Witness ==
    /\ lastOp.op = "sort"
    /\ lastOp.text = "name_desc"
    /\ Len(files_column) >= 2
    /\ \E d \in TreeFolders : folder_state[d] = "None"
    /\ output_text.docs # <<>>

\* the list is in the order of a scan: folders in ascending order of name,
\* then files in ascending order of name
InScanOrder(cs) ==
    \A i, j \in 1..Len(cs) : i < j =>
        /\ IsFile(cs[i]) => IsFile(cs[j])
        /\ IsDir(cs[i]) = IsDir(cs[j]) => StrLess(Name(cs[i]), Name(cs[j]))

ChildListsInScanOrder ==
    \A d \in TreeFolders :
        InScanOrder(folder_controls[d]) /\ InScanOrder(folder_original[d])

\* C13: sort reorders only the visible top-level list: a sort step changes
\* no folder's child list, and the child list of every folder, at every
\* depth, is in scan-time order (folders name-ascending, then files
\* name-ascending) after any sequence of sort, filter and clear operations.
C13_ChildListsKeepScanOrder ==
    [][/\ lastOp'.op = "sort" =>
            /\ folder_controls' = folder_controls
            /\ folder_original' = folder_original
       /\ ChildListsInScanOrder
       /\ ChildListsInScanOrder']_vars

\* C13 witness: a descending sort while a visible folder shows two folders
\* or two files
C13_Witness ==
    /\ lastOp.op = "sort"
    /\ lastOp.text = "name_desc"
    /\ \E d \in VisibleFolders : \E i, j \in 1..Len(folder_controls[d]) :
          /\ i < j
          /\ IsDir(folder_controls[d][i]) = IsDir(folder_controls[d][j])

\* a rescan has just rebuilt the tree
Rescanned == lastOp.op \in {"rescan", "settings"} /\ folder_path # NoFolder

\* C14: right after a rescan (folder reselection or saving the exclusion
\* settings) check_values has exactly one entry per file of the scanned
\* tree, every entry is unselected, and every folder's tri-state is
\* NoneSelected, whatever was selected before.
C14_RescanResetsSelection ==
    Rescanned =>
        /\ \A i, j \in 1..Len(check_values.keys) :
              i # j => check_values.keys[i] # check_values.keys[j]
        /\ Range(check_values.keys) = TreeFiles
        /\ \A f \in Range(check_values.keys) : ~check_values.val[f]
        /\ \A f \in TreeFiles : ~cb_value[f]
        /\ \A d \in TreeFolders : folder_state[d] = "False"

\* the directories on the way from n up to, and without, the scanned root
RECURSIVE DirsAbove(_)
DirsAbove(n) ==
    IF FS[n].parent \in {NoFolder, folder_path} THEN {}
    ELSE {FS[n].parent} \cup DirsAbove(FS[n].parent)

\* the entries below the scanned root
RECURSIVE IsBelowRoot(_)
IsBelowRoot(n) ==
    /\ FS[n].parent # NoFolder
    /\ FS[n].parent = folder_path \/ IsBelowRoot(FS[n].parent)

\* the exclusion rules with the default value for every missing field
WithDefaults(pats) ==
    [k \in DOMAIN DefaultExcludePatterns |-> DictGet(pats, k, DefaultExcludePatterns[k])]

\* one of the four exclusion rules applies to entry n
RuleApplies(n) ==
    LET rules == WithDefaults(exclude_patterns)
    IN  \/ \E ext \in rules.extensions : EndsWith(Name(n), ext)
        \/ Name(n) \in rules.files
        \/ FS[n].dir /\ Name(n) \in rules.folders
        \/ ~FS[n].dir /\ FS[n].size > rules.max_file_size

\* no rule applies to n nor to a directory the scan has to pass to reach n
Kept(n) == \A m \in {n} \cup DirsAbove(n) : ~RuleApplies(m)

\* C15: the scan result contains an entry iff none of the exclusion rules
\* applies to it (extension, filename, folder name, size above the ceiling),
\* except that a folder left with zero children after recursive exclusion
\* does not appear, so every folder in the result has at least one
\* descendant file. Stated for the entries that can be stat'ed.
C15_ScanResultIffNotExcluded ==
    Rescanned =>
        /\ \A n \in {m \in Nodes : IsBelowRoot(m) /\ FS[m].statable} :
              IF FS[n].dir
              THEN n \in TreeFolders <=>
                      /\ Kept(n)
                      /\ \E f \in Nodes :
                            ~FS[f].dir /\ FS[f].statable /\ n \in DirsAbove(f) /\ Kept(f)
              ELSE n \in TreeFiles <=> Kept(n)
        /\ \A d \in TreeFolders : AllFilesBelow(d) # {}

\* entry n fails during a scan, or lies in a directory that does: its
\* listing raises, or it cannot be stat'ed
InFailingSubtree(n) ==
    \/ ~FS[n].statable
    \/ \E m \in {n} \cup DirsAbove(n) : FS[m].dir /\ ListdirFails(m)

\* C16: a listing failure of one directory or a stat failure of one entry
\* during a scan is caught locally: the failing entry or subtree contributes
\* no entries, while every other file of the tree that no rule excludes
\* (in sibling subtrees and in the ancestors of the failing directory) is
\* in the result; the scan is never aborted.
C16_ScanFailureIsLocal ==
    Rescanned =>
        \A f \in {m \in Nodes : IsBelowRoot(m) /\ ~FS[m].dir} :
            IF InFailingSubtree(f)
            THEN f \notin TreeFiles /\ ~InDict(check_values, f)
            ELSE Kept(f) => f \in TreeFiles /\ InDict(check_values, f)

\* the document has just been generated
Generated == lastOp.op \in {"setFile", "toggleFolder", "setAll"}

\* the files selected in check_values, and the folders above them
SelectedFiles == {f \in Range(check_values.keys) : check_values.val[f]}

SelectedAncestors == UNION {DirsAbove(f) : f \in SelectedFiles}

\* the path a line of the drawn tree stands for: its name under the path of
\* the nearest line above it that is drawn one level higher
RECURSIVE LinePath(_, _)
LinePath(lines, i) ==
    LET depth  == Len(lines[i].prefix)
        above  == {j \in 1..(i - 1) : Len(lines[j].prefix) = depth - 1}
        parent == CHOOSE j \in above : \A k \in above : k <= j
    IN  IF depth = 0 THEN <<lines[i].name>>
        ELSE IF above = {} THEN <<>>
        ELSE Append(LinePath(lines, parent), lines[i].name)

\* C17: the tree block of the generated document contains exactly the
\* currently selected files and the folders that are ancestors of at least
\* one selected file, each once, under the root name; and it is omitted
\* when no file is selected.
C17_TreeBlockIsSelection ==
    Generated =>
        IF SelectedFiles = {} THEN output_text.tree = <<>>
        ELSE LET lines == Tail(output_text.tree)
                 paths == [i \in 1..Len(lines) |-> LinePath(lines, i)]
             IN  /\ output_text.tree # <<>>
                 /\ Head(output_text.tree).name = Name(folder_path)
                 /\ \A i, j \in 1..Len(lines) : i # j => paths[i] # paths[j]
                 /\ Range(paths) =
                       {RelPath(folder_path, n) : n \in SelectedFiles \cup SelectedAncestors}

\* C17 witness: a document generated while a file two folders deep is
\* selected and another file of the folder above it is not
C17_Witness ==
    /\ Generated
    /\ \E f \in SelectedFiles : \E g \in TreeFiles \ SelectedFiles :
          /\ Cardinality(DirsAbove(f)) = 2
          /\ FS[g].parent \in DirsAbove(f)

\* C18: generation emits exactly one heading block per selected file and
\* never fails because of one file: a selected file that cannot be read
\* gets the same heading (its root-relative path) with an inline error
\* message instead of content, and the blocks of all other selected files
\* are still emitted.
C18_OneBlockPerSelectedFile ==
    Generated =>
        LET docs == output_text.docs
        IN  /\ Len(docs) = Cardinality(SelectedFiles)
            /\ \A f \in SelectedFiles :
                  \E i \in 1..Len(docs) :
                      /\ docs[i].heading = RelPath(folder_path, f)
                      /\ IF FS[f].readable
                         THEN docs[i].body = "content" /\ docs[i].file = f
                         ELSE docs[i].body = "error"

\* C18 witness: a document generated while an unreadable file is selected
\* and a file that comes after it in check_values is selected too
C18_Witness ==
    /\ Generated
    /\ \E i, j \in 1..Len(check_values.keys) :
          /\ i < j
          /\ {check_values.keys[i], check_values.keys[j]} \subseteq SelectedFiles
          /\ ~FS[check_values.keys[i]].readable

\* line j of the drawn tree is a sibling of line i: same depth, and no line
\* between them is drawn higher up
Siblings(lines, i, j) ==
    /\ Len(lines[i].prefix) = Len(lines[j].prefix)
    /\ \A k \in i..j : Len(lines[k].prefix) >= Len(lines[i].prefix)

\* C19: in the rendered tree the siblings of every level appear in
\* lexicographic order of name (files and implicit folders together), the
\* last sibling of a level is drawn with the corner connector and every
\* other sibling with the tee connector, and the lines of a folder's
\* subtree follow the folder's own line directly, with one further
\* indentation (below a last sibling) or continuation (otherwise) token.
C19_TreeDrawing ==
    output_text.tree # <<>> =>
        LET lines == Tail(output_text.tree)
            n     == Len(lines)
        IN  /\ n > 0 /\ lines[1].prefix = <<>>
            /\ \A i, j \in 1..n :
                  (i < j /\ Siblings(lines, i, j)) =>
                      StrLess(lines[i].name, lines[j].name)
            /\ \A i \in 1..n :
                  lines[i].connector =
                      IF \E j \in (i + 1)..n : Siblings(lines, i, j)
                      THEN "tee" ELSE "corner"
            /\ \A i \in 2..n :
                  \/ /\ Len(lines[i].prefix) <= Len(lines[i - 1].prefix)
                     /\ \E j \in 1..(i - 1) : Siblings(lines, j, i)
                            /\ lines[j].prefix = lines[i].prefix
                  \/ lines[i].prefix =
                         Append(lines[i - 1].prefix,
                                IF lines[i - 1].connector = "corner"
                                THEN "blank" ELSE "bar")

\* C19 witness: a drawn tree with a file and a folder as siblings, a folder
\* that is not the last sibling with lines below it, and a line two levels
\* down
C19_Witness ==
    /\ Generated
    /\ output_text.tree # <<>>
    /\ \E i, j \in 1..Len(output_text.tree) :
          /\ output_text.tree[i].connector = "tee"
          /\ i + 1 < j
          /\ output_text.tree[i + 1].prefix = <<"bar">>
          /\ Len(output_text.tree[j].prefix) = 2
    /\ \E f, d \in SelectedFiles \cup SelectedAncestors :
          FS[f].parent = FS[d].parent /\ ~FS[f].dir /\ FS[d].dir

\* the document generated from a fresh scan of `root` under the rules
\* `pats` with exactly the files of `selected` selected
DocumentOf(root, pats, selected) ==
    LET keys == IF root = NoFolder THEN <<>> ELSE LoadDirectory(pats, root).keys
    IN  UpdateMarkdownOutput(root,
            [keys |-> keys, val |-> [f \in Range(keys) |-> f \in selected]])

\* C20: the generated document is a function of the root path (with the
\* tree scanned below it) and the set of selected files only: whatever
\* order of select, deselect and toggle operations led to the selected set,
\* and whatever the filter and sort views are, the document is the same,
\* including the order of the file content blocks.
C20_DocumentDependsOnSelectionOnly ==
    Generated => output_text = DocumentOf(folder_path, exclude_patterns, SelectedFiles)

\* C20 witness: a document generated by a deselection under a filter, with
\* two files still selected, one of them hidden by the filter
C20_Witness ==
    /\ lastOp.op = "setFile"
    /\ ~lastOp.val
    /\ FilterActive
    /\ Cardinality(SelectedFiles) >= 2
    /\ \E f \in SelectedFiles : f \notin Visible

\* p comes before q when the drawn tree lists both: segment by segment, in
\* the order of sorted(subtree.keys())
RECURSIVE PathLess(_, _)
PathLess(p, q) ==
    IF q = <<>> THEN FALSE
    ELSE IF p = <<>> THEN TRUE
    ELSE IF Head(p) # Head(q) THEN StrLess(Head(p), Head(q))
    ELSE PathLess(Tail(p), Tail(q))

\* the line of the drawn tree that stands for the path p (0 when there is
\* none)
TreeLineOf(p) ==
    LET lines == Tail(output_text.tree)
        at    == {i \in 1..Len(lines) : LinePath(lines, i) = p}
    IN  IF at = {} THEN 0 ELSE CHOOSE i \in at : TRUE

\* C21: the file content blocks of the generated document appear in
\* ascending root-relative-path order, which is the relative order in which
\* the tree block lists the selected files.
C21_BlocksInPathOrder ==
    Generated =>
        \A i, j \in 1..Len(output_text.docs) : i < j =>
            /\ PathLess(output_text.docs[i].heading, output_text.docs[j].heading)
            /\ TreeLineOf(output_text.docs[i].heading)
                   < TreeLineOf(output_text.docs[j].heading)

\* the values check_values had at the calls of update_markdown_output made
\* by the handler that leads from this state to the next one
GenerationsOfStep ==
    IF lastOp'.op = "toggleFolder" THEN FolderCheckboxClicked(Sel, lastOp'.node).gens
    ELSE IF lastOp'.op = "setAll" THEN SetAllFiles(Sel, lastOp'.val).gens
    ELSE <<>>

\* C22: operations run to completion without interleaving: no generation
\* pass starts while a folder click, select-all or deselect-all pass has
\* updated only some of the files it is going to update, so every document
\* generated during such a handler is generated from the selection mapping
\* as it is when the handler has completed.
C22_GenerationAfterCompletedMutation ==
    [][lastOp'.op \in {"toggleFolder", "setAll"} =>
         \A i \in 1..Len(GenerationsOfStep) : GenerationsOfStep[i] = check_values']_vars

\* a scan has just built the tree: at startup, after a folder was picked or
\* after the settings were saved
Scanned == lastOp.op \in {"init", "rescan", "settings"} /\ folder_path # NoFolder

\* the tree and the mapping are those of the scan result l
IsScanResult(l) ==
    /\ check_values.keys = l.keys
    /\ folder_original = l.orig
    /\ Range(original_controls) = Range(l.controls)

\* C23: malformed exclusion rules never break a scan: when the stored
\* configuration is missing, unparsable, or its exclude_patterns value lacks
\* one of the fields extensions / files / folders / max_file_size, the scan
\* runs with the default value for what is missing and returns that tree.
C23_ScanWithDefaultsForMissingRules ==
    Scanned => IsScanResult(LoadDirectory(WithDefaults(exclude_patterns), folder_path))

\* the step changed the checkbox and the mapping entry of no file outside S
OnlyChanged(S) ==
    /\ DOMAIN cb_value' = DOMAIN cb_value
    /\ check_values'.keys = check_values.keys
    /\ \A g \in DOMAIN cb_value \ S : cb_value'[g] = cb_value[g]
    /\ \A g \in Range(check_values.keys) \ S :
          check_values'.val[g] = check_values.val[g]

\* C24: selection mutations are local: a click on the checkbox of file f
\* changes the selected flag and the mapping entry of f only, and a click
\* on the checkbox of folder d changes those of descendants of d only; the
\* flags of all other files are unchanged.
C24_SelectionMutationsAreLocal ==
    [][/\ lastOp'.op = "setFile" => OnlyChanged({lastOp'.node})
       /\ lastOp'.op = "toggleFolder" => OnlyChanged(AllFilesBelow(lastOp'.node))]_vars

\* C24 witness: a nested folder was deselected while a file outside it is
\* selected and a filter hides rows
C24_Witness ==
    /\ lastOp.op = "toggleFolder"
    /\ ~lastOp.val
    /\ FS[lastOp.node].parent # folder_path
    /\ FilterActive
    /\ \E g \in TreeFiles \ AllFilesBelow(lastOp.node) : cb_value[g] /\ check_values.val[g]

\* C25: after every operation the selection mapping and the tree agree: the
\* key set of check_values is exactly the set of files of the scanned tree,
\* and for every such file check_values[path] equals the value of the
\* file's checkbox, also after a folder click or select-all / deselect-all
\* performed while a filter is active.
C25_MappingAgreesWithTree ==
    /\ Range(check_values.keys) = TreeFiles
    /\ \A f \in TreeFiles : check_values.val[f] = cb_value[f]

\* C26: after every completed operation (file click, folder click,
\* select-all, deselect-all, filter, sort, rescan) the displayed output
\* document equals the document that generation produces from the current
\* selection mapping; in particular it is empty after a rescan, which
\* resets every file to unselected.
C26_OutputIsCurrentDocument ==
    /\ output_text = UpdateMarkdownOutput(folder_path, check_values)
    /\ Rescanned => output_text = EmptyOutput

\* the rows shown when the query is applied to the unfiltered tree
FilteredView(r) == ReachableIn(r.ctl, r.filtered)

\* C27: the visible view always agrees with the search box: after every
\* operation, a non-blank query q shows the set of rows that applying q to
\* the current unfiltered tree yields, and a blank one shows the whole
\* tree; also after a rescan performed while the search box is non-blank.
C27_ViewAgreesWithQuery ==
    IF FilterActive
    THEN Visible = FilteredView(FilterTop(folder_original, original_controls,
                                          SearchText, <<>>))
    ELSE Visible = ReachableIn(folder_original, original_controls)

\* the list is ordered as the entry of the sort dropdown asks: folders
\* first, each partition in the order of its sort values
OrderedBy(sort_key, cs) ==
    \A i, j \in 1..Len(cs) : i < j =>
        /\ IsFile(cs[i]) => IsFile(cs[j])
        /\ IsDir(cs[i]) = IsDir(cs[j]) => InSortOrder(sort_key, cs[i], cs[j])

\* C28: a sort choice survives the filter: when a sort is performed while a
\* filter is active and the search box is edited next (cleared, or changed
\* to another query), the top-level list shown afterwards is ordered by
\* that key and direction, as after a sort with no filter active.
C28_SortSurvivesFilter ==
    [][(lastOp.op = "sort" /\ FilterActive /\ lastOp'.op = "filter") =>
          OrderedBy(lastOp.text, files_column')]_vars

====
